---- MODULE Spec2Model ----
(***************************************************************************)
(* A model of two data sources of the Okta Terraform provider:             *)
(*   okta/data_source_okta_users.go      dataSourceUsersRead, collectUsers *)
(*   okta/data_source_okta_app_oauth.go  dataSourceAppOauthRead            *)
(* Each read is a sequential handler; the model follows it statement by    *)
(* statement, with the remote server's answers (pages, lists, failures)    *)
(* chosen nondeterministically.                                            *)
(***************************************************************************)
EXTENDS Integers, Sequences, FiniteSets, TLC

VARIABLES
    config,       \* the configuration the ResourceData d was built from
    pc,           \* position of the handler
    trace,        \* log of the observable events: sleeps, log lines, requests
    d,            \* what the handler has written to the ResourceData d
    ret,          \* the diagnostics the handler returned
    pages,        \* users: the server's paginated answer to the user query
    users,        \* users: local `users`
    resp,         \* users: the page the last response `resp` holds (0: none)
    err,          \* local `err`: 0 is nil, k > 0 the error of the k-th event
    id,           \* users: local `id`
    arr,          \* users: local `arr`, filled up to the loop index
    filters,      \* app: local `filters`
    appList,      \* app: local `appList`
    app,          \* app: local `app`
    secretList,   \* app: local `secretList`
    clientSecret  \* app: local `clientSecret`

vars == <<config, pc, trace, d, ret, pages, users, resp, err, id, arr,
          filters, appList, app, secretList, clientSecret>>

userVars == <<pages, users, resp, id, arr>>

appVars == <<filters, appList, app, secretList, clientSecret>>

----------------------------------------------------------------------------
(* Bounds of the model.                                                    *)

MaxPages == 3      \* pages in a server answer
MaxUsers == 3      \* user records in a server answer
MaxApps == 2       \* applications in an answer to the list request

----------------------------------------------------------------------------
(* Strings that the code inspects byte by byte are sequences of bytes.     *)

RECURSIVE Join(_, _)
Join(ss, sep) ==
    IF ss = <<>> THEN <<>>
    ELSE IF Len(ss) = 1 THEN ss[1]
    ELSE ss[1] \o sep \o Join(Tail(ss), sep)

\* s > t on Go strings: bytewise lexicographic order
RECURSIVE StrGreater(_, _)
StrGreater(s, t) ==
    IF s = <<>> THEN FALSE
    ELSE IF t = <<>> THEN TRUE
    ELSE IF Head(s) /= Head(t) THEN Head(s) > Head(t)
    ELSE StrGreater(Tail(s), Tail(t))

HasPrefix(s, p) == Len(p) <= Len(s) /\ SubSeq(s, 1, Len(p)) = p

DigitChars == <<"0", "1", "2", "3", "4", "5", "6", "7", "8", "9">>

----------------------------------------------------------------------------
(* strconv.Atoi on the delay value: an optional sign and then one or more  *)
(* decimal digits; anything else is an error.                              *)

IsDigit(c) == \E k \in 1..10 : DigitChars[k] = c

DigitVal(c) == (CHOOSE k \in 1..10 : DigitChars[k] = c) - 1

RECURSIVE DigitsVal(_, _)
DigitsVal(s, acc) ==
    IF s = <<>> THEN acc ELSE DigitsVal(Tail(s), acc * 10 + DigitVal(Head(s)))

AtoiBody(s) == IF s /= <<>> /\ Head(s) \in {"+", "-"} THEN Tail(s) ELSE s

AtoiOk(s) == AtoiBody(s) /= <<>> /\ \A k \in 1..Len(AtoiBody(s)) : IsDigit(AtoiBody(s)[k])

Atoi(s) ==
    IF Head(s) = "-" THEN 0 - DigitsVal(AtoiBody(s), 0) ELSE DigitsVal(AtoiBody(s), 0)

----------------------------------------------------------------------------
(* The query string of query.Params (url.Values.Encode: keys in sorted     *)
(* order, values query-escaped) and crc32.ChecksumIEEE over its bytes.     *)

HexDigit(n) == IF n < 10 THEN 48 + n ELSE 55 + n

IsUnreserved(b) ==
    \/ b \in 48..57 \/ b \in 65..90 \/ b \in 97..122
    \/ b \in {45, 46, 95, 126}

EscapeByte(b) ==
    IF IsUnreserved(b) THEN <<b>>
    ELSE IF b = 32 THEN <<43>>
    ELSE <<37, HexDigit(b \div 16), HexDigit(b % 16)>>

RECURSIVE QueryEscape(_)
QueryEscape(s) == IF s = <<>> THEN <<>> ELSE EscapeByte(Head(s)) \o QueryEscape(Tail(s))

RECURSIVE FormatInt(_)
FormatInt(n) == IF n < 10 THEN <<48 + n>> ELSE FormatInt(n \div 10) \o <<48 + (n % 10)>>

KeyLimit == <<108, 105, 109, 105, 116>>                          \* "limit"
KeySearch == <<115, 101, 97, 114, 99, 104>>                      \* "search"
KeySortOrder == <<115, 111, 114, 116, 79, 114, 100, 101, 114>>   \* "sortOrder"

\* p.String(): "?" and the set fields as key=value joined by "&"; "" when none is set
ParamsString(p) ==
    LET kv(k, v) == k \o <<61>> \o QueryEscape(v)
        parts == (IF p.Limit /= 0 THEN <<kv(KeyLimit, FormatInt(p.Limit))>> ELSE <<>>)
                 \o (IF p.Search /= <<>> THEN <<kv(KeySearch, p.Search)>> ELSE <<>>)
                 \o (IF p.SortOrder /= <<>> THEN <<kv(KeySortOrder, p.SortOrder)>> ELSE <<>>)
    IN  IF parts = <<>> THEN <<>> ELSE <<63>> \o Join(parts, <<38>>)

\* A 32-bit word is a pair <<hi, lo>> of 16-bit halves.
RECURSIVE Xor(_, _)
Xor(a, b) ==
    IF a = 0 THEN b
    ELSE IF b = 0 THEN a
    ELSE (((a % 2) + (b % 2)) % 2) + 2 * Xor(a \div 2, b \div 2)

XorWord(v, w) == <<Xor(v[1], w[1]), Xor(v[2], w[2])>>

ShiftRight(w, n) == <<w[1] \div (2 ^ n), (w[2] \div (2 ^ n)) + (w[1] % (2 ^ n)) * (2 ^ (16 - n))>>

\* the reflected IEEE polynomial 0xEDB88320
IEEE == <<60856, 33568>>

AllOnes == <<65535, 65535>>

\* one entry step of the table: shift right, folding the polynomial in on a carry
CrcBit(crc) ==
    IF crc[2] % 2 = 1 THEN XorWord(ShiftRight(crc, 1), IEEE) ELSE ShiftRight(crc, 1)

RECURSIVE CrcBits(_, _)
CrcBits(crc, n) ==
    IF n = 0 THEN crc
    ELSE CHOOSE r \in {CrcBits(c, n - 1) : c \in {CrcBit(crc)}} : TRUE

\* the 256-entry table of the polynomial
IEEETable == [b \in 0..255 |-> CrcBits(<<0, b>>, 8)]

\* crc = tab[byte(crc) ^ v] ^ (crc >> 8), over the bytes of s
RECURSIVE CrcUpdate(_, _)
CrcUpdate(crc, s) ==
    IF s = <<>> THEN crc
    ELSE CHOOSE r \in {CrcUpdate(c, Tail(s)) :
                       c \in {XorWord(IEEETable[Xor(crc[2] % 256, Head(s))],
                                      ShiftRight(crc, 8))}} : TRUE

ChecksumIEEE(s) == XorWord(CrcUpdate(AllOnes, s), AllOnes)

\* fmt.Sprintf("%d", w) for an unsigned 32-bit w
RECURSIVE FormatHalves(_, _)
FormatHalves(hi, lo) ==
    LET t == (hi % 10) * 65536 + lo
        qhi == hi \div 10
        qlo == t \div 10
        digit == DigitChars[(t % 10) + 1]
    IN  IF qhi = 0 /\ qlo = 0 THEN digit ELSE FormatHalves(qhi, qlo) \o digit

FormatUint32(w) == FormatHalves(w[1], w[2])

----------------------------------------------------------------------------
(* okta_users: the configuration and the server.                           *)
(* A field left out of the configuration has its zero value, which is what *)
(* d.GetOk reports as not set: "" for a string, {} for a set.              *)

\* the rendered text of the search clauses a configuration may hold
ClauseExpr == << <<97, 32, 101, 113, 32, 34, 98, 34>>,      \* a eq "b"
                 <<99, 32, 115, 119, 32, 34, 100, 34>> >>   \* c sw "d"

OperatorText(o) == IF o = "or" THEN <<32, 111, 114, 32>> ELSE <<32, 97, 110, 100, 32>>

DelayValues == { <<>>, <<"0">>, <<"2">>, <<"1", "0">>, <<"-", "1">>, <<"+", "3">>,
                 <<"1", ".", "5">>, <<"2", "s">> }

UsersConfigs ==
    [ group_id : {"", "00g1"},
      search : SUBSET (1..Len(ClauseExpr)),
      compound_search_operator : {"and", "or"},
      include_groups : BOOLEAN,
      include_roles : BOOLEAN,
      delay_read_seconds : DelayValues ]

defaultPaginationLimit == 200

RECURSIVE Sum(_)
Sum(s) == IF s = <<>> THEN 0 ELSE Head(s) + Sum(Tail(s))

RECURSIVE Flatten(_)
Flatten(ps) == IF ps = <<>> THEN <<>> ELSE Head(ps) \o Flatten(Tail(ps))

\* the records recs cut into pages of the given lengths
Paginate(recs, lens) ==
    [k \in 1..Len(lens) |->
        SubSeq(recs, Sum(SubSeq(lens, 1, k - 1)) + 1, Sum(SubSeq(lens, 1, k)))]

\* the orders in which the server may list m user records
ServerOrders(m) == { [k \in 1..m |-> k], [k \in 1..m |-> m + 1 - k] }

\* every answer of the server: up to MaxUsers records over 1..MaxPages pages,
\* any page possibly empty
ServerAnswers ==
    UNION { { Paginate(recs, lens) : recs \in ServerOrders(Sum(lens)) } :
            lens \in { l \in UNION { [1..n -> 0..MaxUsers] : n \in 1..MaxPages } :
                         Sum(l) <= MaxUsers } }

Event(ev, what, arg) == [ev |-> ev, what |-> what, arg |-> arg]

Request(what, arg) == Event("request", what, arg)

Running == [status |-> "running", msg |-> ""]

Errorf(msg) == [status |-> "error", msg |-> msg]

ReturnNil == [status |-> "ok", msg |-> ""]

UsersData == [written |-> {}, id |-> "", users |-> <<>>]

\* the locals of the other data source's handler, which a read never touches
AppLocalsIdle ==
    /\ filters = <<>>
    /\ appList = <<>>
    /\ app = <<>>
    /\ secretList = <<>>
    /\ clientSecret = ""

UsersInit ==
    /\ config \in UsersConfigs
    /\ pc = "validate"
    /\ trace = <<>>
    /\ d = UsersData
    /\ ret = Running
    /\ pages = <<>>
    /\ users = <<>>
    /\ resp = 0
    /\ err = 0
    /\ id = ""
    /\ arr = <<>>
    /\ AppLocalsIdle

\* the schema without its ConflictsWith declarations
UsersNoConflictsWith(c) == FALSE

\* schema: group_id and search each declare ConflictsWith the other, so a
\* configuration holding both is refused before ReadContext runs
UsersConflictsWith(c) == c.group_id /= "" /\ c.search /= {}

UsersValidate ==
    /\ pc = "validate"
    /\ IF UsersConflictsWith(config)
       THEN /\ ret' = Errorf("conflicting configuration arguments")
            /\ pc' = "done"
       ELSE /\ pc' = "delay"
            /\ ret' = ret
    /\ UNCHANGED <<config, trace, d, err, userVars, appVars>>

\* a slip in the delay: the sleep is logged but not done
DelayEventsNoSleep(n) ==
    IF n = <<>> THEN <<>>
    ELSE IF AtoiOk(n)
         THEN <<Event("info", "delaying users read", Atoi(n))>>
         ELSE <<Event("warn", "delay value is not an integer", 0)>>

\* lines 77-85: the optional delay
DelayEvents(n) ==
    IF n = <<>> THEN <<>>
    ELSE IF AtoiOk(n)
         THEN <<Event("info", "delaying users read", Atoi(n)), Event("sleep", "seconds", Atoi(n))>>
         ELSE <<Event("warn", "delay value is not an integer", 0)>>

UsersDelay ==
    /\ pc = "delay"
    /\ trace' = trace \o DelayEvents(config.delay_read_seconds)
    /\ pc' = "resolve"
    /\ UNCHANGED <<config, d, ret, err, userVars, appVars>>

\* the elements of a set of clause numbers in the order schema.Set lists them
RECURSIVE SetList(_)
SetList(S) ==
    IF S = {} THEN <<>>
    ELSE LET m == CHOOSE x \in S : \A y \in S : x <= y IN <<m>> \o SetList(S \ {m})

\* getSearchCriteria: the clauses joined by the compound operator
getSearchCriteria(c) ==
    Join([k \in 1..Cardinality(c.search) |-> ClauseExpr[SetList(c.search)[k]]],
         OperatorText(c.compound_search_operator))

\* line 99
SearchParams(c) ==
    [Search |-> getSearchCriteria(c), Limit |-> defaultPaginationLimit, SortOrder |-> <<48>>]

\* a slip in the checksum's input: the bare criteria, not the query string
SyntheticIdOfCriteria(c) == FormatUint32(ChecksumIEEE(getSearchCriteria(c)))

\* line 100
SyntheticId(c) == FormatUint32(ChecksumIEEE(ParamsString(SearchParams(c))))

\* listGroupUsers: every member of the group, or the error of the listing
\* lines 95-97
ResolveGroup ==
    /\ pc = "resolve"
    /\ config.group_id /= ""
    /\ id' = config.group_id
    /\ trace' = Append(trace, Request("ListGroupUsers", 0))
    /\ \/ \E answer \in ServerAnswers :
            /\ pages' = answer
            /\ users' = Flatten(answer)
            /\ err' = 0
       \/ /\ users' = <<>>
          /\ err' = Len(trace) + 1
          /\ pages' = pages
    /\ pc' = "fetched"
    /\ UNCHANGED <<config, d, ret, resp, arr, appVars>>

\* lines 98-100: the search selector, up to the call of collectUsers
ResolveSearch ==
    /\ pc = "resolve"
    /\ config.group_id = ""
    /\ config.search /= {}
    /\ id' = SyntheticId(config)
    /\ pc' = "ListUsers"
    /\ UNCHANGED <<config, trace, d, ret, err, pages, users, resp, arr, appVars>>

\* lines 102-104: neither selector
ResolveNone ==
    /\ pc = "resolve"
    /\ config.group_id = ""
    /\ config.search = {}
    /\ ret' = Errorf("must specify either group_id or search attributes")
    /\ pc' = "done"
    /\ UNCHANGED <<config, trace, d, err, userVars, appVars>>

----------------------------------------------------------------------------
(* collectUsers, lines 137-153.                                            *)

\* resp.HasNextPage(): the server links a further page
HasNextPage(r) == r < Len(pages)

\* a slip in the append: the next page goes in front
AppendPageFront(us, nextUsers) == nextUsers \o us

\* lines 148-150: the records of the next page go after the ones held
AppendPage(us, nextUsers) == us \o nextUsers

\* a slip in the error return: the users held so far come back with the error
FailedUsersKept(us) == us

\* lines 140 and 146: `return nil, err`
FailedUsers(us) == <<>>

\* where the handler goes after a failed request: back to the caller
AfterFailure(at) == "fetched"

\* line 138: the first request
ListUsers ==
    /\ pc = "ListUsers"
    /\ trace' = Append(trace, Request("ListUsers", 1))
    /\ \/ \E answer \in ServerAnswers :
            /\ pages' = answer
            /\ users' = answer[1]
            /\ resp' = 1
            /\ err' = 0
            /\ pc' = "loop"
       \/ /\ users' = FailedUsers(users)
          /\ err' = Len(trace) + 1
          /\ pc' = AfterFailure(pc)
          /\ UNCHANGED <<pages, resp>>
    /\ UNCHANGED <<config, d, ret, id, arr, appVars>>

\* lines 142-151: one turn of the loop
NextPage ==
    /\ pc = "loop"
    /\ HasNextPage(resp)
    /\ trace' = Append(trace, Request("Next", resp + 1))
    /\ \/ /\ users' = AppendPage(users, pages[resp + 1])
          /\ resp' = resp + 1
          /\ UNCHANGED <<err, pc>>
       \/ /\ users' = FailedUsers(users)
          /\ err' = Len(trace) + 1
          /\ pc' = AfterFailure(pc)
          /\ resp' = resp
    /\ UNCHANGED <<config, d, ret, pages, id, arr, appVars>>

\* line 152
CollectReturn ==
    /\ pc = "loop"
    /\ ~HasNextPage(resp)
    /\ pc' = "fetched"
    /\ UNCHANGED <<config, trace, d, ret, err, userVars, appVars>>

----------------------------------------------------------------------------
(* dataSourceUsersRead, lines 106-135.                                     *)

SetId(data, v) == [data EXCEPT !.written = @ \cup {"id"}, !.id = v]

\* lines 106-109
CheckErr ==
    /\ pc = "fetched"
    /\ IF err /= 0
       THEN /\ ret' = Errorf("failed to list users")
            /\ pc' = "done"
            /\ d' = d
       ELSE /\ d' = SetId(d, id)
            /\ pc' = "flatten"
            /\ ret' = ret
    /\ UNCHANGED <<config, trace, err, userVars, appVars>>

rawMap(u) ==
    [id |-> u, group_memberships |-> config.include_groups,
     admin_roles |-> config.include_roles]

\* lines 113-131: one turn of the loop over users
FlattenUser ==
    /\ pc = "flatten"
    /\ Len(arr) < Len(users)
    /\ LET u == users[Len(arr) + 1]
           groupsReq == IF config.include_groups
                        THEN <<Request("ListUserGroups", u)>> ELSE <<>>
           rolesReq == IF config.include_roles
                       THEN <<Request("ListAssignedRoles", u)>> ELSE <<>>
       IN  \/ /\ trace' = trace \o groupsReq \o rolesReq
              /\ arr' = Append(arr, rawMap(u))
              /\ UNCHANGED <<pc, ret, err>>
           \/ /\ config.include_groups
              /\ trace' = trace \o groupsReq
              /\ err' = Len(trace) + 1
              /\ ret' = Errorf("failed to list users")
              /\ pc' = "done"
              /\ arr' = arr
           \/ /\ config.include_roles
              /\ trace' = trace \o groupsReq \o rolesReq
              /\ err' = Len(trace) + Len(groupsReq) + 1
              /\ ret' = Errorf("failed to set user's admin roles")
              /\ pc' = "done"
              /\ arr' = arr
    /\ UNCHANGED <<config, d, pages, users, resp, id, appVars>>

\* lines 133-134
SetUsers ==
    /\ pc = "flatten"
    /\ Len(arr) = Len(users)
    /\ d' = [d EXCEPT !.written = @ \cup {"users"}, !.users = arr]
    /\ ret' = ReturnNil
    /\ pc' = "done"
    /\ UNCHANGED <<config, trace, err, userVars, appVars>>

UsersNext ==
    \/ UsersValidate
    \/ UsersDelay
    \/ ResolveGroup
    \/ ResolveSearch
    \/ ResolveNone
    \/ ListUsers
    \/ NextPage
    \/ CollectReturn
    \/ CheckErr
    \/ FlattenUser
    \/ SetUsers

SpecUsers == UsersInit /\ [][UsersNext]_vars

----------------------------------------------------------------------------
(* okta_app_oauth: the configuration and the server.                       *)

LabelL1 == <<"L", "1">>

LabelL1x == <<"L", "1", "x">>

AppConfigs ==
    [ id : {"", "0oa0"},
      label : {<<>>, LabelL1},
      label_prefix : {<<>>, LabelL1} ]

\* The nested structures of an application are pointers; has* tells which of
\* them the decoded response holds.
AppShapes ==
    { a \in [ hasVisibility : BOOLEAN, hasHide : BOOLEAN,
              hasSettings : BOOLEAN, hasSettingsOauthClient : BOOLEAN,
              hasIdpInitiatedLogin : BOOLEAN,
              hasCredentials : BOOLEAN, hasCredentialsOauthClient : BOOLEAN,
              ClientSecret : {"", "app-secret"} ] :
        /\ a.hasHide => a.hasVisibility
        /\ a.hasSettingsOauthClient => a.hasSettings
        /\ a.hasIdpInitiatedLogin => a.hasSettingsOauthClient
        /\ a.hasCredentialsOauthClient => a.hasCredentials
        /\ a.ClientSecret /= "" => a.hasCredentialsOauthClient }

FullShape ==
    [ hasVisibility |-> TRUE, hasHide |-> TRUE, hasSettings |-> TRUE,
      hasSettingsOauthClient |-> TRUE, hasIdpInitiatedLogin |-> TRUE,
      hasCredentials |-> TRUE, hasCredentialsOauthClient |-> TRUE,
      ClientSecret |-> "app-secret" ]

App(appId, label, shape) == [Id |-> appId, Label |-> label, shape |-> shape]

AppIds == <<"0oa1", "0oa2", "0oa3", "0oa4">>

\* the answers to GET /api/v1/apps?q=...: applications whose label starts with
\* q, in the server's order; the nested structures vary on the first one
ListAnswers(q) ==
    LET labels == { l \in {LabelL1, LabelL1x} : HasPrefix(l, q) }
    IN  {<<>>} \cup
        UNION { { [k \in 1..n |-> App(AppIds[k], ls[k], IF k = 1 THEN sh ELSE FullShape)] :
                    ls \in [1..n -> labels], sh \in AppShapes } : n \in 1..MaxApps }

MaxSecrets == 2

TimeStamps == { <<50, 51>>, <<50, 51, 48>>, <<50, 52>> }   \* "23", "230", "24"

SecretValues == <<"secret-1", "secret-2">>

\* the answers to GET /api/v1/apps/{id}/credentials/secrets
SecretAnswers ==
    UNION { { [k \in 1..n |-> [Status |-> st[k], ClientSecret |-> SecretValues[k],
                                LastUpdated |-> ts[k]]] :
                st \in [1..n -> {"ACTIVE", "INACTIVE"}], ts \in [1..n -> TimeStamps] } :
            n \in 0..MaxSecrets }

AppData == [written |-> {}, id |-> "", client_secret |-> ""]

NoFilters == [ID |-> "", Label |-> <<>>, LabelPrefix |-> <<>>]

NoApp == App("", <<>>, FullShape)

AppInit ==
    /\ config \in AppConfigs
    /\ pc = "appValidate"
    /\ trace = <<>>
    /\ d = AppData
    /\ ret = Running
    /\ err = 0
    /\ filters = NoFilters
    /\ appList = <<>>
    /\ app = NoApp
    /\ secretList = <<>>
    /\ clientSecret = ""
    /\ pages = <<>>
    /\ users = <<>>
    /\ resp = 0
    /\ id = ""
    /\ arr = <<>>

\* schema: id, label and label_prefix each declare ConflictsWith the other two
AppConflictsWith(c) ==
    Cardinality({k \in {"id", "label", "label_prefix"} :
                    \/ k = "id" /\ c.id /= ""
                    \/ k = "label" /\ c.label /= <<>>
                    \/ k = "label_prefix" /\ c.label_prefix /= <<>>}) > 1

AppValidate ==
    /\ pc = "appValidate"
    /\ IF AppConflictsWith(config)
       THEN /\ ret' = Errorf("conflicting configuration arguments")
            /\ pc' = "done"
       ELSE /\ pc' = "getAppFilters"
            /\ ret' = ret
    /\ UNCHANGED <<config, trace, d, err, userVars, appVars>>

\* getAppFilters: the three selectors as given; an error when none is
FiltersValid(c) == c.id /= "" \/ c.label /= <<>> \/ c.label_prefix /= <<>>

\* lines 169-172
GetAppFilters ==
    /\ pc = "getAppFilters"
    /\ IF FiltersValid(config)
       THEN /\ filters' = [ID |-> config.id, Label |-> config.label,
                           LabelPrefix |-> config.label_prefix]
            /\ pc' = "fetch"
            /\ ret' = ret
       ELSE /\ ret' = Errorf("invalid OAuth app filters")
            /\ pc' = "done"
            /\ filters' = filters
    /\ UNCHANGED <<config, trace, d, err, userVars, appList, app, secretList, clientSecret>>

\* filters.getQ(): the label when one is given, the label prefix otherwise
getQ(f) == IF f.Label /= <<>> THEN f.Label ELSE f.LabelPrefix

\* lines 174-179: the lookup by ID
GetApplication ==
    /\ pc = "fetch"
    /\ filters.ID /= ""
    /\ trace' = Append(trace, Request("GetApplication", 0))
    /\ \/ \E l \in {LabelL1, LabelL1x}, sh \in AppShapes :
            /\ app' = App(filters.ID, l, sh)
            /\ pc' = "setAppUsers"
            /\ UNCHANGED <<ret, err>>
       \/ /\ err' = Len(trace) + 1
          /\ ret' = Errorf("failed get app by ID")
          /\ pc' = "done"
          /\ app' = app
    /\ UNCHANGED <<config, d, userVars, filters, appList, secretList, clientSecret>>

\* lines 181-191: the list request
ListApps ==
    /\ pc = "fetch"
    /\ filters.ID = ""
    /\ trace' = Append(trace, Request("ListApps", 1))
    /\ \/ \E answer \in ListAnswers(getQ(filters)) :
            /\ appList' = answer
            /\ pc' = "select"
            /\ UNCHANGED <<ret, err>>
       \/ /\ err' = Len(trace) + 1
          /\ ret' = Errorf("failed to list OAuth apps")
          /\ pc' = "done"
          /\ appList' = appList
    /\ UNCHANGED <<config, d, userVars, filters, app, secretList, clientSecret>>

\* line 195: the exact label is checked again locally
LabelMismatch(f, list) == f.Label /= <<>> /\ list[1].Label /= f.Label

\* a slip in the choice: the last application of the list
ChosenAppLast(list) == list[Len(list)]

\* line 199
ChosenApp(list) == list[1]

\* lines 192-199
SelectApp ==
    /\ pc = "select"
    /\ IF Len(appList) < 1
       THEN /\ ret' = Errorf("no OAuth application found with provided filter")
            /\ pc' = "done"
            /\ UNCHANGED <<app, trace>>
       ELSE IF LabelMismatch(filters, appList)
       THEN /\ ret' = Errorf("no OAuth application found with the provided label")
            /\ pc' = "done"
            /\ UNCHANGED <<app, trace>>
       ELSE /\ trace' = Append(trace, Event("info", "using the first one", 0))
            /\ app' = ChosenApp(appList)
            /\ pc' = "setAppUsers"
            /\ ret' = ret
    /\ UNCHANGED <<config, d, err, userVars, filters, appList, secretList, clientSecret>>

\* lines 201-204: setAppUsersIDsAndGroupsIDs, as far as this handler sees it:
\* a call that returns nil or an error
SetAppUsersIDsAndGroupsIDs ==
    /\ pc = "setAppUsers"
    /\ trace' = Append(trace, Request("ListAppUsersAndGroups", 0))
    /\ \/ /\ pc' = "listSecrets"
          /\ UNCHANGED <<ret, err>>
       \/ /\ err' = Len(trace) + 1
          /\ ret' = Errorf("failed to list OAuth's app groups and users")
          /\ pc' = "done"
    /\ UNCHANGED <<config, d, userVars, appVars>>

\* lines 207-217
ListSecrets ==
    /\ pc = "listSecrets"
    /\ trace' = Append(trace, Request("ListSecrets", 0))
    /\ \/ \E answer \in SecretAnswers :
            /\ secretList' = answer
            /\ pc' = "selectSecret"
            /\ UNCHANGED <<ret, err>>
       \/ /\ err' = Len(trace) + 1
          /\ ret' = Errorf("failed to list OAuth client secrets")
          /\ pc' = "done"
          /\ secretList' = secretList
    /\ UNCHANGED <<config, d, userVars, filters, appList, app, clientSecret>>

\* a slip in the choice: of two active secrets always the first
ChooseSecretFirst(list) ==
    IF Len(list) > 0
    THEN IF list[1].Status = "ACTIVE" THEN list[1].ClientSecret
         ELSE IF Len(list) > 1 /\ list[2].Status = "ACTIVE" THEN list[2].ClientSecret
         ELSE ""
    ELSE ""

\* lines 206 and 219-231
ChooseSecret(list) ==
    IF Len(list) > 0
    THEN IF Len(list) > 1 /\ list[1].Status = "ACTIVE" /\ list[2].Status = "ACTIVE"
         THEN IF StrGreater(list[2].LastUpdated, list[1].LastUpdated)
              THEN list[2].ClientSecret
              ELSE list[1].ClientSecret
         ELSE IF list[1].Status = "ACTIVE" THEN list[1].ClientSecret
         ELSE IF Len(list) > 1 /\ list[2].Status = "ACTIVE" THEN list[2].ClientSecret
         ELSE ""
    ELSE ""

SelectSecret ==
    /\ pc = "selectSecret"
    /\ clientSecret' = ChooseSecret(secretList)
    /\ pc' = "flattenVisibility"
    /\ UNCHANGED <<config, trace, d, ret, err, userVars, filters, appList, app, secretList>>

----------------------------------------------------------------------------
(* dataSourceAppOauthRead, lines 234-284: the writes to d.  Reading a      *)
(* field through a nil pointer panics; what was written before stays.      *)

Set(data, names) == [data EXCEPT !.written = @ \cup names]

Panic == [status |-> "panic", msg |-> "nil pointer dereference"]

\* lines 234-240
VisibilityWrites(a, data) ==
    LET d1 == Set(SetId(data, a.Id), {"label", "name", "status"})
        d2 == Set(d1, {"auto_submit_toolbar"})
    IN  IF ~a.shape.hasVisibility THEN [data |-> d1, panic |-> TRUE]
        ELSE IF ~a.shape.hasHide THEN [data |-> d2, panic |-> TRUE]
        ELSE [data |-> Set(d2, {"hide_ios", "hide_web"}), panic |-> FALSE]

\* line 253: the value written to client_secret
WrittenClientSecret(a, chosen) == a.shape.ClientSecret

\* lines 247-264
OauthClientWrites(a, chosen, data) ==
    LET d1 == Set(data, {"type", "client_uri", "logo_uri", "login_uri"})
        d2 == [Set(d1, {"client_id", "client_secret", "policy_uri", "wildcard_redirect"})
                 EXCEPT !.client_secret = WrittenClientSecret(a, chosen)]
    IN  IF ~a.shape.hasSettings THEN [data |-> data, panic |-> TRUE]
        ELSE IF ~a.shape.hasSettingsOauthClient THEN [data |-> data, panic |-> FALSE]
        ELSE IF ~a.shape.hasCredentials \/ ~a.shape.hasCredentialsOauthClient
             THEN [data |-> d1, panic |-> TRUE]
        ELSE [data |-> d2, panic |-> FALSE]

\* lines 272-276: the login mode, written ahead of the aggregated fields
LoginModeWrites(a, data) ==
    IF a.shape.hasSettingsOauthClient /\ a.shape.hasIdpInitiatedLogin
    THEN Set(data, {"login_mode"})
    ELSE data

\* lines 266-271 and 278: setNonPrimitives writes every entry of aggMap
AggregateWrites(a, data) ==
    Set(data, {"redirect_uris", "response_types", "grant_types", "post_logout_redirect_uris"}
              \cup (IF a.shape.hasSettingsOauthClient /\ a.shape.hasIdpInitiatedLogin
                    THEN {"login_scopes"} ELSE {}))

FlattenVisibility ==
    /\ pc = "flattenVisibility"
    /\ LET w == VisibilityWrites(app, d)
       IN  /\ d' = w.data
           /\ IF w.panic
              THEN ret' = Panic /\ pc' = "panic"
              ELSE ret' = ret /\ pc' = "flattenOauthClient"
    /\ UNCHANGED <<config, trace, err, userVars, appVars>>

FlattenOauthClient ==
    /\ pc = "flattenOauthClient"
    /\ LET w == OauthClientWrites(app, clientSecret, d)
       IN  /\ d' = w.data
           /\ IF w.panic
              THEN ret' = Panic /\ pc' = "panic"
              ELSE ret' = ret /\ pc' = "flattenRest"
    /\ UNCHANGED <<config, trace, err, userVars, appVars>>

\* lines 266-284: the aggregated fields and the links, or the error of
\* setNonPrimitives
FlattenRest ==
    /\ pc = "flattenRest"
    /\ \/ /\ d' = Set(AggregateWrites(app, LoginModeWrites(app, d)), {"links"})
          /\ ret' = ReturnNil
          /\ err' = err
       \/ /\ d' = LoginModeWrites(app, d)
          /\ ret' = Errorf("failed to set OAuth application properties")
          /\ err' = Len(trace) + 1
    /\ pc' = "done"
    /\ UNCHANGED <<config, trace, userVars, appVars>>

AppNext ==
    \/ AppValidate
    \/ GetAppFilters
    \/ GetApplication
    \/ ListApps
    \/ SelectApp
    \/ SetAppUsersIDsAndGroupsIDs
    \/ ListSecrets
    \/ SelectSecret
    \/ FlattenVisibility
    \/ FlattenOauthClient
    \/ FlattenRest

SpecApp == AppInit /\ [][AppNext]_vars

----------------------------------------------------------------------------
(* Properties of the users read.                                           *)

IsRequest(e) == e.ev = "request"

IsPageRequest(e) == e.ev = "request" /\ e.what \in {"ListUsers", "Next"}

IsQuery(e) == e.ev = "request" /\ e.what \in {"ListUsers", "ListGroupUsers"}

IsSleep(e) == e.ev = "sleep"

IsWarn(e) == e.ev = "warn"

Requests == SelectSeq(trace, IsRequest)

PageRequests == SelectSeq(trace, IsPageRequest)

Queries == SelectSeq(trace, IsQuery)

BySearch == config.group_id = "" /\ config.search /= {}

ByGroup == config.group_id /= "" /\ config.search = {}

\* C1: collectUsers is order-preserving and exhaustive.  While it runs it holds
\* the records of the pages fetched so far, in page order and then in
\* within-page order; when it returns without a failure it has asked for every
\* page of the answer once, in order, and holds exactly the records of all pages.
C1_CollectUsersExhaustive ==
    /\ (pc = "loop" =>
          /\ users = Flatten(SubSeq(pages, 1, resp))
          /\ Len(PageRequests) = resp)
    /\ (pc = "fetched" /\ BySearch /\ err = 0 =>
          /\ users = Flatten(pages)
          /\ Len(users) = Sum([k \in 1..Len(pages) |-> Len(pages[k])])
          /\ PageRequests = [k \in 1..Len(pages) |->
                               IF k = 1 THEN Request("ListUsers", 1) ELSE Request("Next", k)])

C1_Witness ==
    /\ pc = "fetched" /\ BySearch /\ err = 0
    /\ Len(pages) = 3
    /\ pages[1] /= <<>> /\ pages[2] = <<>> /\ Len(pages[3]) = 2
    /\ users[1] > users[2]

\* C2: collectUsers fails fast.  When a page request fails it returns the error
\* of that request and no users, the failed request is the last event of the
\* read, and no page request is ever issued twice.
C2_CollectUsersFailsFast ==
    /\ \A i, j \in 1..Len(PageRequests) : i /= j => PageRequests[i] /= PageRequests[j]
    /\ (BySearch /\ pc \in {"fetched", "done"} /\ err /= 0 /\ IsPageRequest(trace[err]) =>
          /\ users = <<>>
          /\ err = Len(trace)
          /\ Len(PageRequests) = resp + 1
          /\ (pc = "done" => ret = Errorf("failed to list users") /\ d = UsersData))

C2_Witness ==
    /\ pc = "done" /\ BySearch /\ err /= 0
    /\ resp = 2 /\ Len(pages) = 3
    /\ pages[1] /= <<>> /\ pages[2] /= <<>>
    /\ trace[err] = Request("Next", 3)

\* C5: selector resolution.  With both group_id and search the read fails with
\* a configuration error and no request; with neither it fails with a
\* configuration error and no request; with one of them the one query issued is
\* the listing that belongs to it.
C5_SelectorResolution ==
    /\ (config.group_id /= "" /\ config.search /= {} /\ pc /= "validate" =>
          /\ pc = "done"
          /\ ret = Errorf("conflicting configuration arguments")
          /\ Requests = <<>>)
    /\ (config.group_id = "" /\ config.search = {} =>
          /\ Requests = <<>>
          /\ (pc = "done" => ret = Errorf("must specify either group_id or search attributes")))
    /\ (ByGroup =>
          /\ PageRequests = <<>>
          /\ (pc \in {"fetched", "flatten", "done"} => Queries = <<Request("ListGroupUsers", 0)>>))
    /\ (BySearch =>
          /\ (pc \in {"loop", "fetched", "flatten", "done"} => Queries = <<Request("ListUsers", 1)>>))

C5_Witness ==
    /\ pc = "done"
    /\ config.group_id /= "" /\ config.search = {1, 2}
    /\ ret.status = "error"

\* CRC-32 (IEEE) of "?limit=200&search=<criteria, query-escaped>&sortOrder=0",
\* in decimal, for the criteria the clauses give:
\*   a eq "b"                 2890646129
\*   c sw "d"                 198865565
\*   a eq "b" and c sw "d"    57594955
\*   a eq "b" or c sw "d"     1607503538
ReferenceId(search, operator) ==
    IF search = {1} THEN "2890646129"
    ELSE IF search = {2} THEN "198865565"
    ELSE IF operator = "and" THEN "57594955"
    ELSE "1607503538"

\* C8: the resource ID is a function of the resolved selector alone.  For a
\* search it is the decimal CRC-32 of the query string of (criteria, limit 200,
\* sortOrder "0"), whatever the server answered and whatever include_groups,
\* include_roles and delay_read_seconds are; for a group it is the group id.
C8_SyntheticIdDeterminism ==
    /\ (BySearch /\ pc \notin {"validate", "delay", "resolve"} =>
          id = ReferenceId(config.search, config.compound_search_operator))
    /\ ("id" \in d.written =>
          /\ d.id = id
          /\ (ByGroup => d.id = config.group_id))

C8_Witness ==
    /\ pc = "done" /\ ret = ReturnNil
    /\ config.search = {1, 2} /\ config.compound_search_operator = "or"
    /\ config.include_roles /\ config.delay_read_seconds = <<"2">>
    /\ Len(users) = 2
    /\ d.id = "1607503538"

\* the integer a delay value denotes, for the values that denote one
ReferenceDelay(n) ==
    IF n = <<"0">> THEN 0
    ELSE IF n = <<"2">> THEN 2
    ELSE IF n = <<"1", "0">> THEN 10
    ELSE IF n = <<"-", "1">> THEN 0 - 1
    ELSE 3

IntegerDelays == { <<"0">>, <<"2">>, <<"1", "0">>, <<"-", "1">>, <<"+", "3">> }

Delayed == pc \notin {"validate", "delay"}

C7_NoPartialState ==
    /\ (ret.status = "error" => d = UsersData)
    /\ (ret.status = "ok" => d.written = {"id", "users"})

----------------------------------------------------------------------------
(* Properties of the OAuth application read.                               *)

\* the order of the three time stamps as strings: "23" < "230" < "24"
StampRank(t) == IF t = <<50, 51>> THEN 1 ELSE IF t = <<50, 51, 48>> THEN 2 ELSE 3

ActiveSecrets(list) == { k \in 1..Len(list) : list[k].Status = "ACTIVE" }

\* the rule of the credential-secret pair, for a list of at most two records
SecretRule(list) ==
    LET active == ActiveSecrets(list)
    IN  IF active = {} THEN ""
        ELSE IF Cardinality(active) = 1 THEN list[CHOOSE k \in active : TRUE].ClientSecret
        ELSE IF StampRank(list[2].LastUpdated) > StampRank(list[1].LastUpdated)
             THEN list[2].ClientSecret
             ELSE list[1].ClientSecret

SecretChosen == pc \in {"flattenVisibility", "flattenOauthClient", "flattenRest", "panic"}
                \/ (pc = "done" /\ ret.msg \in {"", "failed to set OAuth application properties"})

\* C3: credential-secret disambiguation.  Of a list of zero, one or two secret
\* records the handler selects the ACTIVE one; of two ACTIVE ones the one with
\* the greater lastUpdated string, the first when they are equal; and the empty
\* string, without an error, when none is ACTIVE.
C3_SecretDisambiguation ==
    /\ (SecretChosen /\ Len(secretList) <= 2 => clientSecret = SecretRule(secretList))
    /\ (pc = "flattenVisibility" => ret = Running /\ err = 0)
    /\ (~SecretChosen => clientSecret = "")

C3_Witness ==
    /\ pc = "flattenVisibility"
    /\ Len(secretList) = 2
    /\ secretList[1].Status = "ACTIVE" /\ secretList[2].Status = "ACTIVE"
    /\ secretList[1].LastUpdated = <<50, 51, 48>> /\ secretList[2].LastUpdated = <<50, 52>>
    /\ clientSecret = "secret-2"

\* C4: after a successful read the client_secret output holds the secret the
\* disambiguation rule selects from the listed secrets, so it is empty when no
\* listed secret is ACTIVE.
C4_ClientSecretOutput ==
    pc = "done" /\ ret.status = "ok" => d.client_secret = SecretRule(secretList)

ByList == filters /= NoFilters /\ filters.ID = ""

AppSelected == ByList /\ pc \notin {"appValidate", "getAppFilters", "fetch", "select"}
               /\ ret.msg /= "failed to list OAuth apps"

\* C6: the read without an ID selector.  An empty answer fails the read; an
\* exact label that differs from the label of the first application fails the
\* read although the server matched it; otherwise the first application of the
\* answer is the one used, down to the ID written.  With a label prefix no
\* label is checked locally.
C6_FirstAppAndLabelCheck ==
    AppSelected =>
      /\ \A k \in 1..Len(appList) : HasPrefix(appList[k].Label, getQ(filters))
      /\ IF appList = <<>>
         THEN /\ pc = "done" /\ app = NoApp /\ d = AppData
              /\ ret = Errorf("no OAuth application found with provided filter")
         ELSE IF config.label /= <<>> /\ appList[1].Label /= config.label
         THEN /\ pc = "done" /\ app = NoApp /\ d = AppData
              /\ ret = Errorf("no OAuth application found with the provided label")
         ELSE /\ app = appList[1]
              /\ ret.msg \notin {"no OAuth application found with provided filter",
                                 "no OAuth application found with the provided label"}
              /\ ("id" \in d.written => d.id = appList[1].Id)

C6_Witness ==
    /\ pc = "done"
    /\ config.label = LabelL1
    /\ Len(appList) = 2
    /\ appList[1].Label = LabelL1x /\ appList[2].Label = LabelL1
    /\ ret = Errorf("no OAuth application found with the provided label")

\* the fields written for an application, by the structures it holds
FieldsOf(shape) ==
    {"id", "label", "name", "status", "links",
     "redirect_uris", "response_types", "grant_types", "post_logout_redirect_uris"}
    \cup (IF shape.hasVisibility THEN {"auto_submit_toolbar"} ELSE {})
    \cup (IF shape.hasHide THEN {"hide_ios", "hide_web"} ELSE {})
    \cup (IF shape.hasSettingsOauthClient
          THEN {"type", "client_uri", "logo_uri", "login_uri", "policy_uri", "wildcard_redirect"}
          ELSE {})
    \cup (IF shape.hasSettingsOauthClient /\ shape.hasCredentialsOauthClient
          THEN {"client_id", "client_secret"} ELSE {})
    \cup (IF shape.hasIdpInitiatedLogin THEN {"login_mode", "login_scopes"} ELSE {})

\* C10: the flattener skips absent nested structures.  Whatever structures the
\* fetched application holds, flattening does not fail, and it ends with the
\* fields of the present structures and the four sets written.
C10_FlattenSkipsAbsent ==
    /\ pc /= "panic"
    /\ (pc = "done" /\ ret.status = "ok" => d.written = FieldsOf(app.shape))

====
